---- MODULE Spec2Model ----
(***************************************************************************)
(* Model of the TV discovery subsystem of Movie-Roulette:                   *)
(*   - TVDiscoveryBase.scan_network     (utils/tv/base/tv_discovery.py)    *)
(*   - TVDiscoveryFactory               (utils/tv/base/tv_discovery.py)    *)
(*   - WebOSDiscovery.test_connection   (utils/tv/discovery/...)           *)
(*   - connect_to_tv and main           (utils/lgtv_control.py)            *)
(* Python strings are sequences of one-character strings, so that lower(), *)
(* upper(), strip(), split(), slicing and the substring test are computed  *)
(* as Python computes them.  Optional[str] is a tuple of length 0 (None)   *)
(* or 1 (the string).                                                      *)
(***************************************************************************)
EXTENDS Integers, Sequences, FiniteSets, TLC

VARIABLES
  \* ---- scan_network ----
  settings,         \* settings['clients']['tvs']['blacklist']['mac_addresses']
  spc,              \* position of the scan_network call
  blacklisted_macs, \* local: the blacklist as loaded by this call
  stdout,           \* local: result.stdout.splitlines()
  lineIdx,          \* local: index of the next line of the for loop
  devices,          \* local: the accumulated device list
  scanResult,       \* the value scan_network returned
  scanExc,          \* the exception raised inside the try block ("none" if none)
  scanPropagated,   \* TRUE iff an exception left scan_network
  scanCalls,        \* hook calls of this scan, in order: <<hook, line index>>
  edited,           \* TRUE iff this scan follows a scan that had loaded a
                    \* blacklist other than the one configured now
  \* ---- TVDiscoveryFactory ----
  discoveries,      \* TVDiscoveryFactory._discoveries: key -> instance, 0 = no entry
  imported,         \* the vendor modules already imported (sys.modules)
  nextInst,         \* identity of the next object constructed
  constructions,    \* per built-in key: constructions of its strategy class
  registers,        \* register() calls made by code outside the factory
  callers,          \* the threads that call get_discovery
  fpc,              \* per caller: position in get_discovery
  tv_type,          \* per caller: the argument of the call
  newInst,          \* per caller: the instance built by line 109/112/115
  fret,             \* per caller: the value returned, 0 = None
  calls,            \* per caller: get_discovery calls made so far
  emptyAtCall,      \* per caller: _discoveries was empty when the call started
  prevRet,          \* per caller: <<key, value>> of its previous call, <<>> if
                    \* none or if register() was called from outside since
  \* ---- WebOSDiscovery.test_connection ----
  ncExit,           \* the target: per port, what `nc -zv -w1 ip port` does
  sockOpen,         \* the target: the ports a TCP connect to it reaches
  dnsOutcome,       \* the target: what reverse resolution of its IP does
  ppc,              \* position of the test_connection call
  portIdx,          \* index of the next port of the running for loop
  probeResult,      \* "True" / "False" returned, "none" before
  probeExc,         \* exception that reached the outer try block
  probePropagated,  \* TRUE iff an exception left test_connection
  probeLog,         \* the probes made, in order: <<method, port, outcome>>
  \* ---- lgtv_control ----
  tvEnv,            \* TRUE iff LGTV_MAC and LGTV_IP are both set
  storeFile,        \* lgtv_store.json: "absent", "corrupt", "empty", "paired"
  cpc,              \* position in main / connect_to_tv
  store,            \* local: the keys of the pairing store dict
  attempts,         \* client.connect() calls made so far
  prompts,          \* PROMPTED statuses of the running register()
  registered,       \* TRUE iff the running register() yielded REGISTERED
  saved,            \* TRUE iff save_store completed in this call
  cret,             \* what connect_to_tv returned: "none" before, "client"
  cexc              \* the last exception raised in connect_to_tv

scanVars == <<settings, spc, blacklisted_macs, stdout, lineIdx, devices,
              scanResult, scanExc, scanPropagated, scanCalls, edited>>

factoryVars == <<discoveries, imported, nextInst, constructions, registers,
                 callers, fpc, tv_type, newInst, fret, calls, emptyAtCall,
                 prevRet>>

probeVars == <<ncExit, sockOpen, dnsOutcome, ppc, portIdx, probeResult,
               probeExc, probePropagated, probeLog>>

connectVars == <<tvEnv, storeFile, cpc, store, attempts, prompts, registered,
                 saved, cret, cexc>>

vars == <<scanVars, factoryVars, probeVars, connectVars>>

\* ------------------------------------------------------------------------
\* Bounds of the model
\* ------------------------------------------------------------------------
MaxLines == 2        \* lines of one arp-scan output
MaxRegisters == 1    \* register() calls made by code outside the factory
MaxCalls == 2        \* get_discovery calls of one caller
MaxAttempts == 2     \* client.connect() calls of one connect_to_tv
MaxPrompts == 1      \* PROMPTED statuses of one register()

\* ------------------------------------------------------------------------
\* Python string primitives
\* ------------------------------------------------------------------------
None == <<>>
Some(s) == <<s>>

LowerAlpha == <<"a","b","c","d","e","f","g","h","i","j","k","l","m",
                "n","o","p","q","r","s","t","u","v","w","x","y","z">>
UpperAlpha == <<"A","B","C","D","E","F","G","H","I","J","K","L","M",
                "N","O","P","Q","R","S","T","U","V","W","X","Y","Z">>

lower_char(c) ==
  IF \E i \in 1..26 : UpperAlpha[i] = c
    THEN LowerAlpha[CHOOSE i \in 1..26 : UpperAlpha[i] = c]
    ELSE c

upper_char(c) ==
  IF \E i \in 1..26 : LowerAlpha[i] = c
    THEN UpperAlpha[CHOOSE i \in 1..26 : LowerAlpha[i] = c]
    ELSE c

\* str.lower()
lower(s) == [i \in 1..Len(s) |-> lower_char(s[i])]

\* str.upper()
upper(s) == [i \in 1..Len(s) |-> upper_char(s[i])]

\* s[:n]
Slice(s, n) == SubSeq(s, 1, IF Len(s) < n THEN Len(s) ELSE n)

\* sub in s
Contains(sub, s) ==
  \E i \in 0..(Len(s) - Len(sub)) : SubSeq(s, i + 1, i + Len(sub)) = sub

Tab == "\t"
Whitespace == {" ", Tab}

\* str.strip()
strip(s) ==
  LET keep == {i \in 1..Len(s) : s[i] \notin Whitespace}
  IN  IF keep = {} THEN <<>>
      ELSE SubSeq(s, CHOOSE i \in keep : \A j \in keep : i <= j,
                     CHOOSE i \in keep : \A j \in keep : j <= i)

\* str.split(sep)
RECURSIVE split(_, _)
split(s, sep) ==
  IF \A i \in 1..Len(s) : s[i] # sep
    THEN <<s>>
    ELSE LET i == CHOOSE k \in 1..Len(s) :
                    s[k] = sep /\ \A j \in 1..(k - 1) : s[j] # sep
         IN  <<SubSeq(s, 1, i - 1)>> \o split(SubSeq(s, i + 1, Len(s)), sep)

\* ------------------------------------------------------------------------
\* WebOSDiscovery: the vendor hooks
\* ------------------------------------------------------------------------
LG_Electronics == <<"L","G"," ","E","l","e","c","t","r","o","n","i","c","s">>
LG_WebOS_TV == <<"L","G"," ","W","e","b","O","S"," ","T","V">>
LG_TV == <<"L","G"," ","T","V">>
LG_Electronics_TV ==
  <<"L","G"," ","E","l","e","c","t","r","o","n","i","c","s"," ","T","V">>
LG_Smart_TV == <<"L","G"," ","S","m","a","r","t"," ","T","V">>
WebOS == <<"W","e","b","O","S">>

Prefix(a, b, c, d, e, f) == <<a, b, ":", c, d, ":", e, f>>

\* WebOSDiscovery.get_mac_prefixes(): the dict literal, as <<key, value>> items
get_mac_prefixes ==
  <<
     <<Prefix("0","0","E","0","7","0"), LG_Electronics>>,
     <<Prefix("0","0","1","C","6","2"), LG_Electronics>>,
     <<Prefix("0","0","1","E","7","5"), LG_Electronics>>,
     <<Prefix("0","0","1","F","6","B"), LG_Electronics>>,
     <<Prefix("0","0","1","F","E","3"), LG_Electronics>>,
     <<Prefix("0","0","2","2","A","9"), LG_Electronics>>,
     <<Prefix("0","0","2","4","8","3"), LG_Electronics>>,
     <<Prefix("0","0","2","5","E","5"), LG_Electronics>>,
     <<Prefix("0","0","2","6","E","2"), LG_Electronics>>,
     <<Prefix("0","0","3","4","D","A"), LG_Electronics>>,
     <<Prefix("0","0","3","A","A","F"), LG_Electronics>>,
     <<Prefix("0","0","5","0","B","A"), LG_Electronics>>,
     <<Prefix("0","0","5","2","A","1"), LG_Electronics>>,
     <<Prefix("0","0","A","A","7","0"), LG_Electronics>>,
     <<Prefix("0","0","5","A","1","3"), LG_WebOS_TV>>,
     <<Prefix("0","0","C","0","3","8"), LG_TV>>,
     <<Prefix("0","4","4","E","5","A"), LG_WebOS_TV>>,
     <<Prefix("0","8","D","4","6","A"), LG_TV>>,
     <<Prefix("1","0","6","8","3","F"), LG_Electronics_TV>>,
     <<Prefix("1","0","F","1","F","2"), LG_TV>>,
     <<Prefix("1","0","F","9","6","F"), LG_Electronics_TV>>,
     <<Prefix("2","C","5","4","C","F"), LG_Electronics_TV>>,
     <<Prefix("2","C","5","9","8","A"), LG_Electronics_TV>>,
     <<Prefix("3","4","4","D","F","7"), LG_Electronics_TV>>,
     <<Prefix("3","8","8","C","5","0"), LG_Electronics_TV>>,
     <<Prefix("3","C","B","D","D","8"), LG_Electronics_TV>>,
     <<Prefix("4","0","B","0","F","A"), LG_Electronics_TV>>,
     <<Prefix("4","8","5","9","2","9"), LG_Electronics_TV>>,
     <<Prefix("5","0","5","5","2","7"), LG_Electronics_TV>>,
     <<Prefix("5","8","A","2","B","5"), LG_Electronics_TV>>,
     <<Prefix("6","0","E","3","A","C"), LG_Electronics_TV>>,
     <<Prefix("6","4","9","9","5","D"), LG_Electronics_TV>>,
     <<Prefix("6","C","D","D","B","C"), LG_Electronics_TV>>,
     <<Prefix("7","0","9","1","8","F"), LG_Electronics_TV>>,
     <<Prefix("7","4","A","5","2","8"), LG_Electronics_TV>>,
     <<Prefix("7","8","5","D","C","8"), LG_Electronics_TV>>,
     <<Prefix("7","C","1","C","4","E"), LG_Electronics_TV>>,
     <<Prefix("7","C","A","B","2","5"), LG_WebOS_TV>>,
     <<Prefix("8","8","3","6","6","C"), LG_Electronics_TV>>,
     <<Prefix("8","C","3","C","4","A"), LG_Electronics_TV>>,
     <<Prefix("9","8","9","3","C","C"), LG_Electronics_TV>>,
     <<Prefix("9","8","D","6","F","7"), LG_Electronics_TV>>,
     <<Prefix("A","0","3","9","F","7"), LG_Electronics_TV>>,
     <<Prefix("A","8","1","6","B","2"), LG_Electronics_TV>>,
     <<Prefix("A","8","2","3","F","E"), LG_Electronics_TV>>,
     <<Prefix("A","C","0","D","1","B"), LG_Electronics_TV>>,
     <<Prefix("B","4","0","E","D","C"), LG_Smart_TV>>,
     <<Prefix("B","4","E","6","2","A"), LG_Electronics_TV>>,
     <<Prefix("B","8","1","D","A","A"), LG_Electronics_TV>>,
     <<Prefix("B","8","A","D","3","E"), LG_Electronics_TV>>,
     <<Prefix("B","C","8","C","C","D"), LG_Smart_TV>>,
     <<Prefix("B","C","F","5","A","C"), LG_Electronics_TV>>,
     <<Prefix("C","4","3","6","6","C"), LG_Electronics_TV>>,
     <<Prefix("C","4","9","A","0","2"), LG_Smart_TV>>,
     <<Prefix("C","8","0","2","8","F"), LG_Electronics_TV>>,
     <<Prefix("C","8","0","8","E","9"), LG_Electronics_TV>>,
     <<Prefix("C","C","2","D","8","C"), LG_Electronics_TV>>,
     <<Prefix("C","C","F","A","0","0"), LG_Electronics_TV>>,
     <<Prefix("D","0","1","3","F","D"), LG_Electronics_TV>>,
     <<Prefix("D","8","4","D","2","C"), LG_Electronics_TV>>,
     <<Prefix("D","C","0","B","3","4"), LG_Electronics_TV>>,
     <<Prefix("E","8","5","B","5","B"), LG_Electronics_TV>>,
     <<Prefix("E","8","F","2","E","2"), LG_Electronics_TV>>,
     <<Prefix("F","0","1","C","1","3"), LG_Electronics_TV>>,
     <<Prefix("F","8","0","C","F","3"), LG_Electronics_TV>>,
     <<Prefix("F","C","4","D","8","C"), LG_WebOS_TV>>
  >>

\* key in dict
DictHas(d, k) == \E i \in 1..Len(d) : d[i][1] = k

\* dict.get(k, default); of equal keys of a dict literal the last one stands
DictGet(d, k, default) ==
  IF DictHas(d, k)
    THEN d[CHOOSE i \in 1..Len(d) :
             d[i][1] = k /\ \A j \in (i + 1)..Len(d) : d[j][1] # k][2]
    ELSE default

\* WebOSDiscovery.get_name()
get_name == <<"L","G"," ","W","e","b","O","S">>

\* WebOSDiscovery.get_warning_message()
get_warning_message == None

\* WebOSDiscovery._is_tv_device(desc): "True", "False", or the exception
\* that `'LG Electronics' in desc` raises when desc is None
_is_tv_device(desc) ==
  IF desc = None THEN "TypeError"
  ELSE IF Contains(LG_Electronics, desc[1]) \/ Contains(WebOS, desc[1])
         THEN "True" ELSE "False"

\* bool(x) of an Optional[str]
Truthy(opt) == opt # None /\ opt[1] # <<>>

\* ------------------------------------------------------------------------
\* Inputs of the scan: lines of arp-scan output, configured blacklists
\* ------------------------------------------------------------------------
Ip1 == <<"1","0",".","0",".","0",".","5">>
Ip2 == <<"1","0",".","0",".","0",".","7">>
Ip3 == <<"1","0",".","0",".","0",".","9">>

MacLG      == <<"7","C",":","A","B",":","2","5",":","1","1",":","2","2",":","3","3">>
MacLGLower == <<"7","c",":","a","b",":","2","5",":","1","1",":","2","2",":","3","3">>
MacLGMixed == <<"0","0",":","e","0",":","7","0",":","0","A",":","0","b",":","0","C">>
MacOther   == <<"A","A",":","B","B",":","C","C",":","0","0",":","0","0",":","0","1">>

DescMyTV  == <<"M","y"," ","L","G"," ","T","V">>
DescApple == <<"A","p","p","l","e">>

LineBanner        == <<"I","n","t","e","r","f","a","c","e",":"," ","e","t","h","0">>
LineLG            == Ip1 \o <<Tab>> \o MacLG \o <<Tab>> \o DescMyTV
LineLGLower       == Ip1 \o <<Tab>> \o MacLGLower \o <<Tab>> \o LG_Electronics
LineLGNoDesc      == Ip2 \o <<Tab>> \o MacLGMixed
LineLGEmptyDesc   == Ip2 \o <<Tab>> \o MacLGMixed \o <<Tab, Tab>> \o DescApple
LineOtherLG       == Ip3 \o <<Tab>> \o MacOther \o <<Tab>> \o LG_Electronics
LineOtherApple    == Ip3 \o <<Tab>> \o MacOther \o <<Tab>> \o DescApple
LineOtherNoDesc   == Ip3 \o <<Tab>> \o MacOther
LineOtherTrailTab == Ip3 \o <<Tab>> \o MacOther \o <<Tab>>
LineIpOnly        == Ip2 \o <<Tab>>

Lines == {LineBanner, LineLG, LineLGLower, LineLGNoDesc, LineLGEmptyDesc,
          LineOtherLG, LineOtherApple, LineOtherNoDesc, LineOtherTrailTab,
          LineIpOnly}

\* every sequence of at most MaxLines lines
Bodies == UNION {[1..n -> Lines] : n \in 0..MaxLines}

\* what arp-scan can print: at most MaxLines lines, after its banner or not
ScanOutputs == Bodies \cup {<<LineBanner>> \o body : body \in Bodies}

\* the blacklists a user can configure
Blacklists == SUBSET {MacLG, MacLGMixed, MacOther}

\* ------------------------------------------------------------------------
\* TVDiscoveryBase.scan_network
\* ------------------------------------------------------------------------
\* line.strip().split('\t')
Parts(line) == split(strip(line), Tab)

\* the line passes `'\t' in line` and `len(parts) >= 2`
HasTriple(line) == Contains(<<Tab>>, line) /\ Len(Parts(line)) >= 2

LineIp(line) == Parts(line)[1]
LineMac(line) == Parts(line)[2]
\* desc = parts[2] if len(parts) > 2 else None
LineDesc(line) == IF Len(Parts(line)) > 2 THEN Some(Parts(line)[3]) ELSE None

\* a mutant of IsBlacklisted: the comparison without .lower()
IsBlacklistedCaseSensitive(mac, blacklist) == mac \in blacklist

\* mac.lower() in (addr.lower() for addr in blacklisted_macs)
IsBlacklisted(mac, blacklist) == lower(mac) \in {lower(addr) : addr \in blacklist}

\* mac_prefix = mac.upper()[:8]
MacPrefix(mac) == Slice(upper(mac), 8)

\* a mutant of Classify: the operands of `or` exchanged
ClassifyHeuristicFirst(mac, desc) ==
  IF _is_tv_device(desc) # "False" THEN _is_tv_device(desc)
  ELSE IF DictHas(get_mac_prefixes, MacPrefix(mac)) THEN "True"
  ELSE "False"

\* mac_prefix in self.get_mac_prefixes() or self._is_tv_device(desc):
\* `or` evaluates _is_tv_device only when the prefix is not in the table
Classify(mac, desc) ==
  IF DictHas(get_mac_prefixes, MacPrefix(mac)) THEN "True"
  ELSE _is_tv_device(desc)

\* a mutant of MakeDevice: the MAC stored in upper case
MakeDeviceUpperMac(ip, mac, desc) ==
  [ip          |-> ip,
   mac         |-> upper(mac),
   description |-> IF Truthy(desc) THEN desc[1]
                   ELSE DictGet(get_mac_prefixes, MacPrefix(mac),
                                get_name \o <<" ","D","e","v","i","c","e">>),
   device_type |-> DictGet(get_mac_prefixes, MacPrefix(mac),
                           <<"U","n","k","n","o","w","n"," ">> \o get_name
                             \o <<" ","M","o","d","e","l">>),
   untested    |-> Truthy(get_warning_message),
   warning     |-> get_warning_message]

\* the device dict of lines 61-68
MakeDevice(ip, mac, desc) ==
  [ip          |-> ip,
   mac         |-> mac,
   description |-> IF Truthy(desc) THEN desc[1]
                   ELSE DictGet(get_mac_prefixes, MacPrefix(mac),
                                get_name \o <<" ","D","e","v","i","c","e">>),
   device_type |-> DictGet(get_mac_prefixes, MacPrefix(mac),
                           <<"U","n","k","n","o","w","n"," ">> \o get_name
                             \o <<" ","M","o","d","e","l">>),
   untested    |-> Truthy(get_warning_message),
   warning     |-> get_warning_message]

\* TVDiscoveryBase._enrich_device_info: a no-op, not overridden by WebOS
_enrich_device_info(device) == device

\* the classes of the exceptions the modelled code can raise; all derive
\* from Exception
ExceptionSubclasses ==
  {"CalledProcessError", "FileNotFoundError", "TypeError", "AttributeError",
   "ImportError", "NameError", "OSError", "herror", "gaierror"}

\* a mutant of ScanHandler: only `except subprocess.CalledProcessError`
ScanHandlerOnlyCalledProcessError(exc) ==
  IF exc = "CalledProcessError" THEN "return_empty" ELSE "propagate"

\* the except clauses of scan_network (lines 76-81)
ScanHandler(exc) ==
  IF exc = "CalledProcessError" THEN "return_empty"
  ELSE IF exc \in ExceptionSubclasses THEN "return_empty"
  ELSE "propagate"

\* an exception raised inside the try block of scan_network
ScanRaise(exc) ==
  /\ scanExc' = exc
  /\ scanPropagated' = (ScanHandler(exc) = "propagate")
  /\ scanResult' = <<>>
  /\ spc' = "done"

\* what reading the settings can do: utils.settings is an outside module,
\* reading it succeeds or raises
SettingsOutcomes == {"ok", "AttributeError"}

\* the user edits the configured blacklist (between scans)
SetBlacklist ==
  /\ spc \in {"idle", "done"}
  /\ \E b \in Blacklists : b # settings /\ settings' = b
  /\ UNCHANGED <<spc, blacklisted_macs, stdout, lineIdx, devices,
                 scanResult, scanExc, scanPropagated, scanCalls,
                 edited>>
  /\ UNCHANGED <<factoryVars, probeVars, connectVars>>

\* a mutant of ScanCall: the blacklist is read by the first scan only
ScanCallCached ==
  /\ spc \in {"idle", "done"}
  /\ stdout' = <<>>
  /\ lineIdx' = 1
  /\ devices' = <<>>
  /\ scanCalls' = <<>>
  /\ edited' = (spc = "done" /\ settings # blacklisted_macs)
  /\ blacklisted_macs' = IF spc = "done" THEN blacklisted_macs ELSE settings
  /\ spc' = "arp"
  /\ scanExc' = "none"
  /\ scanPropagated' = FALSE
  /\ scanResult' = <<>>
  /\ UNCHANGED settings
  /\ UNCHANGED <<factoryVars, probeVars, connectVars>>

\* scan_network is called: lines 28-32, the blacklist is read from settings
ScanCall ==
  /\ spc \in {"idle", "done"}
  /\ stdout' = <<>>
  /\ lineIdx' = 1
  /\ devices' = <<>>
  /\ scanCalls' = <<>>
  /\ edited' = (spc = "done" /\ settings # blacklisted_macs)
  /\ \E o \in SettingsOutcomes :
       IF o = "ok"
         THEN /\ blacklisted_macs' = settings
              /\ spc' = "arp"
              /\ scanExc' = "none"
              /\ scanPropagated' = FALSE
              /\ scanResult' = <<>>
         ELSE /\ blacklisted_macs' = {}
              /\ ScanRaise(o)
  /\ UNCHANGED settings
  /\ UNCHANGED <<factoryVars, probeVars, connectVars>>

\* subprocess.run(['arp-scan', '--localnet'], ..., check=True): lines 35-41
RunArpScan ==
  /\ spc = "arp"
  /\ \/ \E out \in ScanOutputs :
          /\ stdout' = out
          /\ spc' = "loop"
          /\ UNCHANGED <<scanExc, scanPropagated, scanResult>>
     \/ \E exc \in {"FileNotFoundError", "CalledProcessError"} :
          /\ ScanRaise(exc)
          /\ UNCHANGED stdout
  /\ UNCHANGED <<settings, blacklisted_macs, lineIdx, devices, scanCalls,
                 edited>>
  /\ UNCHANGED <<factoryVars, probeVars, connectVars>>

\* a mutant of ProcessLine: the device is classified and enriched before
\* the blacklist is consulted
ProcessLineEnrichFirst ==
  /\ spc = "loop"
  /\ lineIdx <= Len(stdout)
  /\ LET line == stdout[lineIdx]
         skip ==
           /\ lineIdx' = lineIdx + 1
           /\ UNCHANGED <<spc, devices, scanExc, scanPropagated, scanResult>>
     IN  IF ~HasTriple(line)
           THEN skip /\ UNCHANGED scanCalls
         ELSE
           LET ip == LineIp(line)
               mac == LineMac(line)
               desc == LineDesc(line)
               known == DictHas(get_mac_prefixes, MacPrefix(mac))
               checks == scanCalls \o << <<"mac_prefix", lineIdx>> >>
                           \o (IF known THEN <<>>
                               ELSE << <<"_is_tv_device", lineIdx>> >>)
               verdict == Classify(mac, desc)
               listed == IsBlacklisted(mac, blacklisted_macs)
           IN  CASE verdict = "True" ->
                      /\ devices' = IF listed THEN devices
                                    ELSE Append(devices,
                                      _enrich_device_info(MakeDevice(ip, mac, desc)))
                      /\ scanCalls' = checks \o
                                        << <<"_enrich_device_info", lineIdx>>,
                                           <<"blacklist", lineIdx>> >>
                      /\ lineIdx' = lineIdx + 1
                      /\ UNCHANGED <<spc, scanExc, scanPropagated, scanResult>>
                 [] verdict = "False" ->
                      skip /\ scanCalls' = Append(checks, <<"blacklist", lineIdx>>)
                 [] OTHER ->
                      /\ ScanRaise(verdict)
                      /\ scanCalls' = checks
                      /\ UNCHANGED <<lineIdx, devices>>
  /\ UNCHANGED <<settings, blacklisted_macs, stdout, edited>>
  /\ UNCHANGED <<factoryVars, probeVars, connectVars>>

\* one iteration of `for line in result.stdout.splitlines()`: lines 42-74
ProcessLine ==
  /\ spc = "loop"
  /\ lineIdx <= Len(stdout)
  /\ LET line == stdout[lineIdx]
         skip ==
           /\ lineIdx' = lineIdx + 1
           /\ UNCHANGED <<spc, devices, scanExc, scanPropagated, scanResult>>
     IN  IF ~HasTriple(line)
           THEN skip /\ UNCHANGED scanCalls
         ELSE IF IsBlacklisted(LineMac(line), blacklisted_macs)
           THEN skip /\ scanCalls' = Append(scanCalls, <<"blacklist", lineIdx>>)
         ELSE
           LET ip == LineIp(line)
               mac == LineMac(line)
               desc == LineDesc(line)
               known == DictHas(get_mac_prefixes, MacPrefix(mac))
               checks == scanCalls \o << <<"blacklist", lineIdx>>,
                                         <<"mac_prefix", lineIdx>> >>
                           \o (IF known THEN <<>>
                               ELSE << <<"_is_tv_device", lineIdx>> >>)
               verdict == Classify(mac, desc)
           IN  CASE verdict = "True" ->
                      /\ devices' = Append(devices,
                           _enrich_device_info(MakeDevice(ip, mac, desc)))
                      /\ scanCalls' = Append(checks,
                                        <<"_enrich_device_info", lineIdx>>)
                      /\ lineIdx' = lineIdx + 1
                      /\ UNCHANGED <<spc, scanExc, scanPropagated, scanResult>>
                 [] verdict = "False" -> skip /\ scanCalls' = checks
                 [] OTHER ->
                      /\ ScanRaise(verdict)
                      /\ scanCalls' = checks
                      /\ UNCHANGED <<lineIdx, devices>>
  /\ UNCHANGED <<settings, blacklisted_macs, stdout, edited>>
  /\ UNCHANGED <<factoryVars, probeVars, connectVars>>

\* `return devices`: line 75
ScanReturn ==
  /\ spc = "loop"
  /\ lineIdx > Len(stdout)
  /\ scanResult' = devices
  /\ spc' = "done"
  /\ UNCHANGED <<settings, blacklisted_macs, stdout, lineIdx, devices,
                 scanExc, scanPropagated, scanCalls, edited>>
  /\ UNCHANGED <<factoryVars, probeVars, connectVars>>


\* ------------------------------------------------------------------------
\* TVDiscoveryFactory
\* ------------------------------------------------------------------------
\* the keys get_discovery knows how to import (lines 107-115)
Builtin == {"webos", "tizen", "android"}

\* the keys callers ask for; "roku" is no built-in family
Keys == Builtin \cup {"roku"}

Threads == {1, 2}

\* importing webos_discovery runs its last line,
\* TVDiscoveryFactory.register('webos', WebOSDiscovery())
WebOSModuleOutcomes == {"registers"}

\* tizen_discovery and android_discovery are not among the modelled sources:
\* importing one registers nothing (the registry constructs the strategy
\* itself), or fails
MissingModuleOutcomes == {"silent", "ImportError"}

ImportOutcomes(k) ==
  IF k = "webos" THEN WebOSModuleOutcomes ELSE MissingModuleOutcomes

FactoryIdle == \A t \in callers : fpc[t] \in {"idle", "done", "raised"}

\* the registry has no entry
RegistryEmpty == \A k \in Keys : discoveries[k] = 0

\* TVDiscoveryFactory.register(tv_type, discovery_class), called by code
\* outside the factory with an instance of its own (line 100)
Register ==
  /\ FactoryIdle
  /\ registers < MaxRegisters
  /\ \E k \in Keys : discoveries' = [discoveries EXCEPT ![k] = nextInst]
  /\ nextInst' = nextInst + 1
  /\ registers' = registers + 1
  /\ fpc' = [t \in Threads |-> "idle"]
  /\ prevRet' = [t \in Threads |-> <<>>]
  /\ UNCHANGED <<imported, constructions, callers, calls, tv_type, newInst,
                 fret, emptyAtCall>>
  /\ UNCHANGED <<scanVars, probeVars, connectVars>>

\* a caller enters get_discovery(tv_type)
FCall(t) ==
  /\ t \in callers
  /\ fpc[t] \in {"idle", "done", "raised"}
  /\ calls[t] < MaxCalls
  /\ calls' = [calls EXCEPT ![t] = @ + 1]
  /\ \E k \in Keys : tv_type' = [tv_type EXCEPT ![t] = k]
  /\ fpc' = [fpc EXCEPT ![t] = "check"]
  /\ fret' = [fret EXCEPT ![t] = 0]
  /\ newInst' = [newInst EXCEPT ![t] = 0]
  /\ emptyAtCall' = [emptyAtCall EXCEPT ![t] = RegistryEmpty]
  /\ prevRet' = [prevRet EXCEPT ![t] =
                   IF fpc[t] = "done" THEN <<tv_type[t], fret[t]>> ELSE <<>>]
  /\ UNCHANGED <<discoveries, imported, nextInst, constructions, registers,
                 callers>>
  /\ UNCHANGED <<scanVars, probeVars, connectVars>>

\* a mutant of FCheck: the registry is not consulted, every call of a
\* built-in key imports and constructs
FCheckNoCache(t) ==
  /\ t \in callers
  /\ fpc[t] = "check"
  /\ fpc' = [fpc EXCEPT ![t] =
               IF tv_type[t] \in Builtin THEN "import" ELSE "return"]
  /\ UNCHANGED <<discoveries, imported, nextInst, constructions, registers,
                 callers, calls, tv_type, newInst, fret, emptyAtCall,
                 prevRet>>
  /\ UNCHANGED <<scanVars, probeVars, connectVars>>

\* a mutant of FCheck: a final `else:` that treats every other key as webos
FCheckElseBranch(t) ==
  /\ t \in callers
  /\ fpc[t] = "check"
  /\ fpc' = [fpc EXCEPT ![t] =
               IF discoveries[tv_type[t]] = 0 THEN "construct" ELSE "return"]
  /\ UNCHANGED <<discoveries, imported, nextInst, constructions, registers,
                 callers, calls, tv_type, newInst, fret, emptyAtCall,
                 prevRet>>
  /\ UNCHANGED <<scanVars, probeVars, connectVars>>

\* `if tv_type not in cls._discoveries:` and the if/elif chain on tv_type
\* (lines 105, 107, 110, 113)
FCheck(t) ==
  /\ t \in callers
  /\ fpc[t] = "check"
  /\ fpc' = [fpc EXCEPT ![t] =
               IF discoveries[tv_type[t]] = 0 /\ tv_type[t] \in Builtin
                 THEN "import" ELSE "return"]
  /\ UNCHANGED <<discoveries, imported, nextInst, constructions, registers,
                 callers, calls, tv_type, newInst, fret, emptyAtCall,
                 prevRet>>
  /\ UNCHANGED <<scanVars, probeVars, connectVars>>

\* `from ..discovery.<vendor>_discovery import <Vendor>Discovery` (lines 108,
\* 111, 114): the first import of a module runs its body, under the import
\* lock; a later import finds the module in sys.modules
FImport(t) ==
  /\ t \in callers
  /\ fpc[t] = "import"
  /\ LET k == tv_type[t]
     IN  IF k \in imported
           THEN /\ fpc' = [fpc EXCEPT ![t] = "construct"]
                /\ UNCHANGED <<discoveries, imported, nextInst, constructions>>
           ELSE \E o \in ImportOutcomes(k) :
                  CASE o = "registers" ->
                         /\ imported' = imported \cup {k}
                         /\ discoveries' = [discoveries EXCEPT ![k] = nextInst]
                         /\ nextInst' = nextInst + 1
                         /\ constructions' =
                              [constructions EXCEPT ![k] = @ + 1]
                         /\ fpc' = [fpc EXCEPT ![t] = "construct"]
                    [] o = "silent" ->
                         /\ imported' = imported \cup {k}
                         /\ fpc' = [fpc EXCEPT ![t] = "construct"]
                         /\ UNCHANGED <<discoveries, nextInst, constructions>>
                    [] OTHER ->
                         /\ fpc' = [fpc EXCEPT ![t] = "raised"]
                         /\ UNCHANGED <<discoveries, imported, nextInst,
                                        constructions>>
  /\ UNCHANGED <<registers, callers, calls, tv_type, newInst, fret, emptyAtCall,
                 prevRet>>
  /\ UNCHANGED <<scanVars, probeVars, connectVars>>

\* the argument of cls.register(...): WebOSDiscovery() / TizenDiscovery() /
\* AndroidDiscovery() is evaluated (lines 109, 112, 115)
FConstruct(t) ==
  /\ t \in callers
  /\ fpc[t] = "construct"
  /\ newInst' = [newInst EXCEPT ![t] = nextInst]
  /\ nextInst' = nextInst + 1
  /\ constructions' = [constructions EXCEPT ![tv_type[t]] = @ + 1]
  /\ fpc' = [fpc EXCEPT ![t] = "register"]
  /\ UNCHANGED <<discoveries, imported, registers, callers, calls, tv_type,
                 fret, emptyAtCall, prevRet>>
  /\ UNCHANGED <<scanVars, probeVars, connectVars>>

\* cls.register(tv_type, <the new instance>): line 100 called from 109/112/115
FRegister(t) ==
  /\ t \in callers
  /\ fpc[t] = "register"
  /\ discoveries' = [discoveries EXCEPT ![tv_type[t]] = newInst[t]]
  /\ fpc' = [fpc EXCEPT ![t] = "return"]
  /\ UNCHANGED <<imported, nextInst, constructions, registers, callers,
                 calls, tv_type, newInst, fret, emptyAtCall, prevRet>>
  /\ UNCHANGED <<scanVars, probeVars, connectVars>>

\* `return cls._discoveries.get(tv_type)`: line 117
FReturn(t) ==
  /\ t \in callers
  /\ fpc[t] = "return"
  /\ fret' = [fret EXCEPT ![t] = discoveries[tv_type[t]]]
  /\ fpc' = [fpc EXCEPT ![t] = "done"]
  /\ UNCHANGED <<discoveries, imported, nextInst, constructions, registers,
                 callers, calls, tv_type, newInst, emptyAtCall, prevRet>>
  /\ UNCHANGED <<scanVars, probeVars, connectVars>>

GetDiscovery(t) ==
  \/ FCall(t)
  \/ FCheck(t)
  \/ FImport(t)
  \/ FConstruct(t)
  \/ FRegister(t)
  \/ FReturn(t)

\* the registry of a fresh process, or of one in which webos_discovery was
\* imported before the first get_discovery (its last line has registered)
InitRegistry ==
  \/ /\ imported = {}
     /\ discoveries = [k \in Keys |-> 0]
     /\ constructions = [k \in Builtin |-> 0]
     /\ nextInst = 1
  \/ /\ imported = {"webos"}
     /\ discoveries = [k \in Keys |-> IF k = "webos" THEN 1 ELSE 0]
     /\ constructions = [k \in Builtin |-> IF k = "webos" THEN 1 ELSE 0]
     /\ nextInst = 2

InitCallers ==
  /\ registers = 0
  /\ fpc = [t \in Threads |-> "idle"]
  /\ tv_type = [t \in Threads |-> "webos"]
  /\ newInst = [t \in Threads |-> 0]
  /\ fret = [t \in Threads |-> 0]
  /\ calls = [t \in Threads |-> 0]
  /\ emptyAtCall = [t \in Threads |-> FALSE]
  /\ prevRet = [t \in Threads |-> <<>>]

\* ------------------------------------------------------------------------
\* WebOSDiscovery.test_connection
\* ------------------------------------------------------------------------
\* a mutant of ports: the list sorted
portsSorted == <<"3000", "3001", "8001", "8002", "8080">>

\* `ports` of _test_connection_nc (line 141): the arguments given to nc
ports == <<"3000", "3001", "8080", "8001", "8002">>

\* `webos_ports` of test_connection (line 103)
webos_ports == <<3000, 3001, 8080, 8001, 8002>>

\* webos_discovery.py imports logging, asyncio, typing and the base module:
\* the name `socket` that test_connection uses is bound nowhere
SocketImported == FALSE

\* what spawning `nc -zv -w1 ip port` and waiting for it can do: exit with
\* 0, exit with another code, or raise (FileNotFoundError when nc is missing)
NcOutcomes == {"exit0", "exit1", "raise"}

\* what socket.gethostbyaddr(ip) can do
DnsOutcomes == {"resolves", "herror", "gaierror"}

\* nc is not installed: every spawn raises
NcUnavailable == \A i \in 1..Len(ports) : ncExit[ports[i]] = "raise"

\* the exception a failed spawn raises
NcException == IF NcUnavailable THEN "FileNotFoundError" ELSE "OSError"

\* a mutant of ProbeHandler: test_connection without its outer except clause
ProbeHandlerMissing(exc) == "propagate"

\* the outer except clause of test_connection (lines 129-131)
ProbeHandler(exc) ==
  IF exc \in ExceptionSubclasses THEN "return_false" ELSE "propagate"

\* the except clause of _test_connection_nc (lines 156-158)
NcHandler(exc) ==
  IF exc \in ExceptionSubclasses THEN "return_false" ELSE "propagate"

\* the except clause around one socket connect (lines 114-116)
SocketHandler(exc) ==
  IF exc \in ExceptionSubclasses THEN "continue" ELSE "propagate"

\* test_connection returns `value`
ProbeReturn(value) ==
  /\ probeResult' = value
  /\ ppc' = "done"
  /\ UNCHANGED <<portIdx, probeExc, probePropagated>>

\* an exception reaches the outer try block of test_connection
ProbeRaise(exc) ==
  /\ probeExc' = exc
  /\ probePropagated' = (ProbeHandler(exc) = "propagate")
  /\ probeResult' = IF ProbeHandler(exc) = "propagate" THEN "none" ELSE "False"
  /\ ppc' = "done"
  /\ UNCHANGED portIdx

\* test_connection(ip) is called: line 94, then line 98 enters
\* _test_connection_nc
ProbeCall ==
  /\ ppc = "idle"
  /\ ppc' = "nc"
  /\ portIdx' = 1
  /\ UNCHANGED <<ncExit, sockOpen, dnsOutcome, probeResult, probeExc,
                 probePropagated, probeLog>>
  /\ UNCHANGED <<scanVars, factoryVars, connectVars>>

\* a mutant of NcProbe: a port whose probe exits non-zero is probed again
NcProbeRetry ==
  /\ ppc = "nc"
  /\ LET port == ports[portIdx]
         o == ncExit[port]
     IN  /\ probeLog' = Append(probeLog, <<"nc", port, o>>)
         /\ CASE o = "exit0" -> ProbeReturn("True")
              [] o = "exit1" ->
                   UNCHANGED <<ppc, portIdx, probeResult, probeExc,
                               probePropagated>>
              [] OTHER ->
                   /\ ppc' = "socket"
                   /\ portIdx' = 1
                   /\ UNCHANGED <<probeResult, probeExc, probePropagated>>
  /\ UNCHANGED <<ncExit, sockOpen, dnsOutcome>>
  /\ UNCHANGED <<scanVars, factoryVars, connectVars>>

\* one iteration of `for port in ports` of _test_connection_nc (lines
\* 142-152), with its way out: the return of line 152, of line 155 or of the
\* except clause of line 158, and `if result: return True` (lines 99-100)
NcProbe ==
  /\ ppc = "nc"
  /\ LET port == ports[portIdx]
         o == ncExit[port]
     IN  /\ probeLog' = Append(probeLog, <<"nc", port, o>>)
         /\ CASE o = "exit0" -> ProbeReturn("True")
              [] o = "exit1" ->
                   /\ IF portIdx < Len(ports)
                        THEN ppc' = "nc" /\ portIdx' = portIdx + 1
                        ELSE ppc' = "socket" /\ portIdx' = 1
                   /\ UNCHANGED <<probeResult, probeExc, probePropagated>>
              [] OTHER ->
                   IF NcHandler(NcException) = "return_false"
                     THEN /\ ppc' = "socket"
                          /\ portIdx' = 1
                          /\ UNCHANGED <<probeResult, probeExc,
                                         probePropagated>>
                     ELSE ProbeRaise(NcException)
  /\ UNCHANGED <<ncExit, sockOpen, dnsOutcome>>
  /\ UNCHANGED <<scanVars, factoryVars, connectVars>>

\* one iteration of `for port in webos_ports` (lines 104-116)
SocketProbe ==
  /\ ppc = "socket"
  /\ LET port == webos_ports[portIdx]
         next ==
           /\ IF portIdx < Len(webos_ports)
                THEN ppc' = "socket" /\ portIdx' = portIdx + 1
                ELSE ppc' = "dns" /\ portIdx' = 1
           /\ UNCHANGED <<probeResult, probeExc, probePropagated>>
     IN  IF ~SocketImported
           THEN \* socket.socket(...) raises NameError inside the inner try
                /\ probeLog' = Append(probeLog, <<"socket", port, "NameError">>)
                /\ IF SocketHandler("NameError") = "continue"
                     THEN next
                     ELSE ProbeRaise("NameError")
         ELSE IF port \in sockOpen
           THEN /\ probeLog' = Append(probeLog, <<"socket", port, "connected">>)
                /\ ProbeReturn("True")
           ELSE /\ probeLog' = Append(probeLog, <<"socket", port, "refused">>)
                /\ next
  /\ UNCHANGED <<ncExit, sockOpen, dnsOutcome>>
  /\ UNCHANGED <<scanVars, factoryVars, connectVars>>

\* the reverse-DNS step and the final return (lines 118-127)
DnsProbe ==
  /\ ppc = "dns"
  /\ IF ~SocketImported
       THEN \* evaluating `socket.gethostbyaddr` raises NameError, and so
            \* does evaluating `socket.herror` of the except clause
            /\ probeLog' = Append(probeLog, <<"dns", 0, "NameError">>)
            /\ ProbeRaise("NameError")
       ELSE /\ probeLog' = Append(probeLog, <<"dns", 0, dnsOutcome>>)
            /\ CASE dnsOutcome = "resolves" -> ProbeReturn("True")
                 [] dnsOutcome = "herror" -> ProbeReturn("False")
                 [] OTHER -> ProbeRaise(dnsOutcome)
  /\ UNCHANGED <<ncExit, sockOpen, dnsOutcome>>
  /\ UNCHANGED <<scanVars, factoryVars, connectVars>>

\* the targets a probe can meet
InitProbeEnv ==
  /\ ncExit \in [{ports[i] : i \in 1..Len(ports)} -> NcOutcomes]
  /\ sockOpen \in SUBSET {webos_ports[i] : i \in 1..Len(webos_ports)}
  /\ dnsOutcome \in DnsOutcomes

InitProbeCall ==
  /\ ppc = "idle"
  /\ portIdx = 1
  /\ probeResult = "none"
  /\ probeExc = "none"
  /\ probePropagated = FALSE
  /\ probeLog = <<>>
\* ------------------------------------------------------------------------
\* lgtv_control: main and connect_to_tv
\* ------------------------------------------------------------------------
\* the statuses the generator client.register(store) yields
PROMPTED == "PROMPTED"
REGISTERED == "REGISTERED"

\* what lgtv_store.json can be when main starts
StoreFiles == {"absent", "corrupt", "empty", "paired"}

\* load_store: json.load raises on a file that is not JSON; only
\* FileNotFoundError is caught
LoadRaises(file) == file = "corrupt"

\* load_store: the dict read, {} when the file does not exist
load_store(file) == IF file = "paired" THEN {"client_key"} ELSE {}

\* what save_store can do: open(STORE_PATH, 'w') succeeds or raises
SaveOutcomes == {"ok", "OSError"}

\* what client.connect() can do
ConnectOutcomes == {"ok", "OSError"}

\* what one step of the generator client.register(store) can do: yield a
\* status, raise, or end
RegisterOutcomes == {PROMPTED, REGISTERED, "Exception", "end"}

\* `except Exception` of connect_to_tv (lines 52-54)
ConnectHandler(exc) ==
  IF exc = "Exception" \/ exc \in ExceptionSubclasses THEN "retry"
  ELSE "propagate"

\* a mutant of OnStatus: the client is returned at the first status
OnStatusReturnsAtOnce(status) == "save_and_return"

\* the body of `for status in client.register(store)` (lines 46-51)
OnStatus(status) ==
  IF status = PROMPTED THEN "print"
  ELSE IF status = REGISTERED THEN "save_and_return"
  ELSE "next"

\* an exception raised inside the try block of connect_to_tv
ConnectRaise(exc) ==
  /\ cexc' = exc
  /\ cpc' = IF ConnectHandler(exc) = "retry" THEN "sleep" ELSE "raised"

\* main, lines 68-73: the environment check, send_wol (which catches its
\* own exceptions), then the call of connect_to_tv
main ==
  /\ cpc = "idle"
  /\ cpc' = IF tvEnv THEN "load" ELSE "exit"
  /\ UNCHANGED <<tvEnv, storeFile, store, attempts, prompts, registered,
                 saved, cret, cexc>>
  /\ UNCHANGED <<scanVars, factoryVars, probeVars>>

\* connect_to_tv, lines 39-40: load_store() outside the try block, then the
\* client object
LoadStore ==
  /\ cpc = "load"
  /\ IF LoadRaises(storeFile)
       THEN /\ cexc' = "JSONDecodeError"
            /\ cpc' = "raised"
            /\ UNCHANGED store
       ELSE /\ store' = load_store(storeFile)
            /\ cpc' = "connect"
            /\ UNCHANGED cexc
  /\ UNCHANGED <<tvEnv, storeFile, attempts, prompts, registered, saved, cret>>
  /\ UNCHANGED <<scanVars, factoryVars, probeVars>>

\* client.connect(), line 44, at the top of `while True`
Connect ==
  /\ cpc = "connect"
  /\ attempts < MaxAttempts
  /\ attempts' = attempts + 1
  /\ prompts' = 0
  /\ registered' = FALSE
  /\ \E o \in ConnectOutcomes :
       IF o = "ok" THEN cpc' = "register" /\ UNCHANGED cexc
       ELSE ConnectRaise(o)
  /\ UNCHANGED <<tvEnv, storeFile, store, saved, cret>>
  /\ UNCHANGED <<scanVars, factoryVars, probeVars>>

\* one step of `for status in client.register(store)`, lines 45-51
RegisterStatus ==
  /\ cpc = "register"
  /\ \E o \in RegisterOutcomes :
       CASE o = "Exception" ->
              /\ ConnectRaise(o)
              /\ UNCHANGED <<storeFile, store, prompts, registered, saved, cret>>
         [] o = "end" ->
              /\ cpc' = "connect"
              /\ UNCHANGED <<storeFile, store, prompts, registered, saved,
                             cret, cexc>>
         [] OTHER ->
              /\ o = PROMPTED => prompts < MaxPrompts
              /\ prompts' = IF o = PROMPTED THEN prompts + 1 ELSE prompts
              /\ registered' = (o = REGISTERED)
              /\ store' = IF o = REGISTERED THEN store \cup {"client_key"}
                          ELSE store
              /\ IF OnStatus(o) = "save_and_return"
                   THEN \E s \in SaveOutcomes :
                          IF s = "ok"
                            THEN /\ storeFile' = IF store' = {} THEN "empty"
                                                 ELSE "paired"
                                 /\ saved' = TRUE
                                 /\ cret' = "client"
                                 /\ cpc' = "returned"
                                 /\ UNCHANGED cexc
                            ELSE /\ ConnectRaise(s)
                                 /\ UNCHANGED <<storeFile, saved, cret>>
                   ELSE UNCHANGED <<storeFile, saved, cret, cpc, cexc>>
  /\ UNCHANGED <<tvEnv, attempts>>
  /\ UNCHANGED <<scanVars, factoryVars, probeVars>>

\* time.sleep(3), line 54, then `while True` again
Sleep ==
  /\ cpc = "sleep"
  /\ cpc' = "connect"
  /\ UNCHANGED <<tvEnv, storeFile, store, attempts, prompts, registered,
                 saved, cret, cexc>>
  /\ UNCHANGED <<scanVars, factoryVars, probeVars>>

\* main, lines 74-75: `if client: launch_app(client, app_name)`
LaunchApp ==
  /\ cpc = "returned"
  /\ cret = "client"
  /\ cpc' = "launched"
  /\ UNCHANGED <<tvEnv, storeFile, store, attempts, prompts, registered,
                 saved, cret, cexc>>
  /\ UNCHANGED <<scanVars, factoryVars, probeVars>>

InitConnectEnv ==
  /\ tvEnv \in BOOLEAN
  /\ storeFile \in StoreFiles

InitConnectCall ==
  /\ cpc = "idle"
  /\ store = {}
  /\ attempts = 0
  /\ prompts = 0
  /\ registered = FALSE
  /\ saved = FALSE
  /\ cret = "none"
  /\ cexc = "none"


\* ------------------------------------------------------------------------
\* Specifications
\* ------------------------------------------------------------------------
InitScanCall ==
  /\ spc = "idle"
  /\ blacklisted_macs = {}
  /\ stdout = <<>>
  /\ lineIdx = 1
  /\ devices = <<>>
  /\ scanResult = <<>>
  /\ scanExc = "none"
  /\ scanPropagated = FALSE
  /\ scanCalls = <<>>
  /\ edited = FALSE

\* no scan, no factory call, no probe is running
ScanAtRest == settings = {} /\ InitScanCall

FactoryAtRest ==
  /\ imported = {}
  /\ discoveries = [k \in Keys |-> 0]
  /\ constructions = [k \in Builtin |-> 0]
  /\ nextInst = 1
  /\ callers = {}
  /\ InitCallers

ProbeAtRest ==
  /\ ncExit = [p \in {ports[i] : i \in 1..Len(ports)} |-> "exit1"]
  /\ sockOpen = {}
  /\ dnsOutcome = "herror"
  /\ InitProbeCall

ConnectAtRest ==
  /\ tvEnv = FALSE
  /\ storeFile = "absent"
  /\ InitConnectCall

\* scans of the network, with edits of the blacklist between them
InitScan ==
  /\ settings \in Blacklists
  /\ InitScanCall
  /\ FactoryAtRest
  /\ ProbeAtRest
  /\ ConnectAtRest

NextScan ==
  \/ SetBlacklist
  \/ ScanCall
  \/ RunArpScan
  \/ ProcessLine
  \/ ScanReturn

SpecScan == InitScan /\ [][NextScan]_vars

\* one caller of the factory: its calls follow one another
InitFactorySeq ==
  /\ InitRegistry
  /\ callers = {1}
  /\ InitCallers
  /\ ScanAtRest
  /\ ProbeAtRest
  /\ ConnectAtRest

\* two callers of the factory, in two threads
InitFactory ==
  /\ InitRegistry
  /\ callers = Threads
  /\ InitCallers
  /\ ScanAtRest
  /\ ProbeAtRest
  /\ ConnectAtRest

NextFactory ==
  \/ Register
  \/ \E t \in Threads : GetDiscovery(t)

SpecFactorySeq == InitFactorySeq /\ [][NextFactory]_vars

SpecFactory == InitFactory /\ [][NextFactory]_vars

\* one call of test_connection against every target
InitProbe ==
  /\ InitProbeEnv
  /\ InitProbeCall
  /\ ScanAtRest
  /\ FactoryAtRest
  /\ ConnectAtRest

NextProbe ==
  \/ ProbeCall
  \/ NcProbe
  \/ SocketProbe
  \/ DnsProbe

SpecProbe == InitProbe /\ [][NextProbe]_vars

\* one run of main of lgtv_control, for every environment and store file
InitConnect ==
  /\ InitConnectEnv
  /\ InitConnectCall
  /\ ScanAtRest
  /\ FactoryAtRest
  /\ ProbeAtRest

NextConnect ==
  \/ main
  \/ LoadStore
  \/ Connect
  \/ RegisterStatus
  \/ Sleep
  \/ LaunchApp

SpecConnect == InitConnect /\ [][NextConnect]_vars

\* ------------------------------------------------------------------------
\* Claims about scan_network
\* ------------------------------------------------------------------------
\* the scan ran to its `return devices` or to an except clause
ScanDone == spc = "done"

\* the lines of this scan that carry a triple that is not blacklisted
Candidates ==
  {i \in 1..Len(stdout) :
     /\ HasTriple(stdout[i])
     /\ ~IsBlacklisted(LineMac(stdout[i]), blacklisted_macs)}

\* C1: scan_network never returns a device whose MAC equals, ignoring case,
\* an entry of the blacklist, whatever its MAC prefix and its description.
C1_BlacklistedNeverReturned ==
  ScanDone =>
    \A k \in 1..Len(scanResult) :
      \A addr \in blacklisted_macs :
        lower(scanResult[k].mac) # lower(addr)

\* C1 witness: a scan that returned normally although its output held a
\* device with a known prefix whose MAC is blacklisted in another case.
C1_Witness ==
  /\ ScanDone
  /\ scanExc = "none"
  /\ \E i \in 1..Len(stdout) :
       /\ HasTriple(stdout[i])
       /\ DictHas(get_mac_prefixes, MacPrefix(LineMac(stdout[i])))
       /\ LineMac(stdout[i]) \notin blacklisted_macs
       /\ \E addr \in blacklisted_macs : lower(addr) = lower(LineMac(stdout[i]))

\* C2: a non-blacklisted triple without a description does not make the scan
\* fail: the scan completes normally and returns every other accepted device.
C2_AbsentDescriptionDoesNotFail ==
  (ScanDone /\ \E i \in Candidates : LineDesc(stdout[i]) = None) =>
    /\ scanExc = "none"
    /\ \A j \in Candidates :
         (/\ LineDesc(stdout[j]) # None
          /\ Classify(LineMac(stdout[j]), LineDesc(stdout[j])) = "True") =>
           \E k \in 1..Len(scanResult) :
             /\ scanResult[k].ip = LineIp(stdout[j])
             /\ scanResult[k].mac = LineMac(stdout[j])

\* C3: scan_network never propagates a failure: when arp-scan is missing,
\* exits non-zero, or any step raises, it returns an empty list.
C3_ScanNeverPropagates ==
  ScanDone =>
    /\ ~scanPropagated
    /\ scanExc # "none" => scanResult = <<>>

\* C3 witness: an exception was raised while a device was classified, after
\* another device of the same scan had already been accepted, and the scan
\* returned the empty list.
C3_Witness ==
  /\ ScanDone
  /\ scanExc = "TypeError"
  /\ devices # <<>>
  /\ scanResult = <<>>

\* the line carries a non-blacklisted triple that the vendor accepts
Accepted(i) ==
  /\ i \in Candidates
  /\ Classify(LineMac(stdout[i]), LineDesc(stdout[i])) = "True"

\* the scan returned a device made from line i
Returned(i) ==
  \E k \in 1..Len(scanResult) :
    /\ scanResult[k].ip = LineIp(stdout[i])
    /\ scanResult[k].mac = LineMac(stdout[i])

\* C14: a non-blacklisted scanned device whose MAC prefix is in the table
\* and that has no description is returned, with device_type the table's
\* value for the prefix and untested = whether get_warning_message() is
\* non-empty.
C14_TablePrefixNoDescriptionReturned ==
  ScanDone =>
    \A i \in Candidates :
      (/\ DictHas(get_mac_prefixes, MacPrefix(LineMac(stdout[i])))
       /\ LineDesc(stdout[i]) = None) =>
        \E k \in 1..Len(scanResult) :
          /\ scanResult[k].ip = LineIp(stdout[i])
          /\ scanResult[k].mac = LineMac(stdout[i])
          /\ DictHas(get_mac_prefixes, MacPrefix(LineMac(stdout[i])))
          /\ scanResult[k].device_type =
               DictGet(get_mac_prefixes, MacPrefix(LineMac(stdout[i])), <<>>)
          /\ scanResult[k].untested = (get_warning_message # None
                                        /\ get_warning_message # Some(<<>>))

\* a MAC in canonical form: six pairs of upper-case hex digits, colons between
IsCanonicalMac(mac) ==
  /\ Len(mac) = 17
  /\ \A n \in 1..17 :
       IF n % 3 = 0 THEN mac[n] = ":"
       ELSE mac[n] \in {"0","1","2","3","4","5","6","7","8","9",
                        "A","B","C","D","E","F"}

\* C15 as stated: every returned device has its mac in canonical upper-case
\* colon-separated form, also when the tool reported lower or mixed case.
C15_MacCanonicalUppercase ==
  ScanDone => \A k \in 1..Len(scanResult) : IsCanonicalMac(scanResult[k].mac)

\* C15 amended: every returned device has its mac exactly as the scan tool
\* reported it, the second field of its line, in the tool's letter case.
C15_MacAsScanned ==
  ScanDone =>
    \A k \in 1..Len(scanResult) :
      \E i \in 1..Len(stdout) :
        /\ HasTriple(stdout[i])
        /\ scanResult[k].ip = split(strip(stdout[i]), Tab)[1]
        /\ scanResult[k].mac = split(strip(stdout[i]), Tab)[2]

\* C15 witness: a device was returned whose MAC the tool reported in lower
\* case, and it is returned in lower case.
C15_Witness ==
  /\ ScanDone
  /\ \E k \in 1..Len(scanResult) :
       /\ scanResult[k].mac = MacLGLower
       /\ scanResult[k].mac # upper(scanResult[k].mac)

\* C16: a line without a tab, or with fewer than two tab-separated fields,
\* produces no device and no error; it is skipped, the remaining lines are
\* processed and their accepted devices returned.
C16_MalformedLineSkipped ==
  ScanDone =>
    \A i \in 1..Len(stdout) :
      (~Contains(<<Tab>>, stdout[i]) \/ Len(Parts(stdout[i])) < 2) =>
        /\ scanExc # "none" => lineIdx # i
        /\ \A k \in 1..Len(scanResult) :
             \E j \in 1..Len(stdout) : j # i /\ Accepted(j) /\ Returned(j)
        /\ \A j \in 1..Len(stdout) : (j # i /\ Accepted(j)) => Returned(j)

\* C17: the blacklist is read at every invocation of scan_network, and a
\* scan filters with the blacklist configured when it started: no device
\* on it is returned, and a device with a table prefix that is not on it is.
C17_BlacklistReadAtEveryScan ==
  [][/\ (spc \in {"idle", "done"} /\ spc' = "arp") =>
          blacklisted_macs' = settings
     /\ (spc = "loop" /\ spc' = "done" /\ scanExc' = "none") =>
          /\ settings = blacklisted_macs
          /\ \A k \in 1..Len(scanResult') :
               \A addr \in settings :
                 lower(scanResult'[k].mac) # lower(addr)
          /\ \A i \in 1..Len(stdout) :
               (/\ HasTriple(stdout[i])
                /\ DictHas(get_mac_prefixes, MacPrefix(LineMac(stdout[i])))
                /\ \A addr \in settings :
                     lower(LineMac(stdout[i])) # lower(addr)) =>
                 \E k \in 1..Len(scanResult') :
                   scanResult'[k].mac = LineMac(stdout[i])
    ]_vars

\* C17 witness: a scan that followed a scan and an edit of the blacklist
\* returned normally; it dropped a device with a table prefix that is on
\* the blacklist now and returned a device that is not.
C17_Witness ==
  /\ ScanDone
  /\ scanExc = "none"
  /\ edited
  /\ scanResult # <<>>
  /\ \E i \in 1..Len(stdout) :
       /\ HasTriple(stdout[i])
       /\ DictHas(get_mac_prefixes, MacPrefix(LineMac(stdout[i])))
       /\ IsBlacklisted(LineMac(stdout[i]), blacklisted_macs)

\* the positions of scanCalls that record a call of the hook for line i
HookCalls(hook, i) ==
  {n \in 1..Len(scanCalls) : scanCalls[n] = <<hook, i>>}

\* C18: the blacklist check precedes classification and enrichment: for a
\* blacklisted device neither the prefix lookup, nor _is_tv_device, nor
\* _enrich_device_info is invoked, and _enrich_device_info is invoked exactly
\* once for each returned device.
C18_BlacklistCheckFirst ==
  /\ \A n \in 1..Len(scanCalls) :
       scanCalls[n][1] # "blacklist" =>
         /\ \E m \in 1..(n - 1) : scanCalls[m] = <<"blacklist", scanCalls[n][2]>>
         /\ \A addr \in blacklisted_macs :
              lower(LineMac(stdout[scanCalls[n][2]])) # lower(addr)
  /\ \A i \in 1..Len(stdout) :
       Cardinality(HookCalls("_enrich_device_info", i)) <= 1
  /\ Cardinality({n \in 1..Len(scanCalls) :
                    scanCalls[n][1] = "_enrich_device_info"}) = Len(devices)
  /\ \A k \in 1..Len(devices) :
       \E i \in 1..Len(stdout) :
         /\ HookCalls("_enrich_device_info", i) # {}
         /\ devices[k].ip = LineIp(stdout[i])
         /\ devices[k].mac = LineMac(stdout[i])
  /\ ScanDone => scanResult \in {devices, <<>>}

\* C18 witness: a scan returned a device, enriched once, from an output
\* that also held a blacklisted device the vendor would have accepted, for
\* which only the blacklist check was made.
C18_Witness ==
  /\ ScanDone
  /\ Len(scanResult) = 1
  /\ \E i, j \in 1..Len(stdout) :
       /\ HasTriple(stdout[i])
       /\ IsBlacklisted(LineMac(stdout[i]), blacklisted_macs)
       /\ Classify(LineMac(stdout[i]), LineDesc(stdout[i])) = "True"
       /\ HookCalls("blacklist", i) # {}
       /\ HookCalls("_enrich_device_info", i) = {}
       /\ Cardinality(HookCalls("_enrich_device_info", j)) = 1

\* C19: for a non-blacklisted triple the MAC prefix is looked up before the
\* heuristic and a match of either accepts the device: a device with a
\* table prefix is accepted whatever its description, and _is_tv_device is
\* consulted only when the prefix is not in the table.
C19_PrefixBeforeHeuristic ==
  \A n \in 1..Len(scanCalls) :
    LET i == scanCalls[n][2]
        known == DictHas(get_mac_prefixes, MacPrefix(LineMac(stdout[i])))
        desc == LineDesc(stdout[i])
        matches == /\ desc # None
                   /\ \/ Contains(LG_Electronics, desc[1])
                      \/ Contains(WebOS, desc[1])
        accepted == HookCalls("_enrich_device_info", i) # {}
    IN  /\ scanCalls[n][1] = "_is_tv_device" =>
             /\ n > 1
             /\ scanCalls[n - 1] = <<"mac_prefix", i>>
             /\ ~known
        /\ scanCalls[n][1] = "mac_prefix" =>
             /\ known => accepted /\ HookCalls("_is_tv_device", i) = {}
             /\ ~known => HookCalls("_is_tv_device", i) # {}
             /\ accepted <=> (known \/ matches)

\* C19 witness: one scan accepted a device with a table prefix whose
\* description does not match the heuristic, without consulting it, and a
\* device with an unknown prefix through the heuristic.
C19_Witness ==
  /\ ScanDone
  /\ Len(scanResult) = 2
  /\ \E i, j \in 1..Len(stdout) :
       /\ LineMac(stdout[i]) = MacLG
       /\ LineDesc(stdout[i]) = Some(DescMyTV)
       /\ HookCalls("_is_tv_device", i) = {}
       /\ HookCalls("_enrich_device_info", i) # {}
       /\ LineMac(stdout[j]) = MacOther
       /\ HookCalls("_is_tv_device", j) # {}
       /\ HookCalls("_enrich_device_info", j) # {}


\* ------------------------------------------------------------------------
\* Claims about TVDiscoveryFactory
\* ------------------------------------------------------------------------
\* caller t has returned from a call get_discovery(k) that followed another
\* call get_discovery(k) of its own, no register() of outside code between
TwoCallsInARow(t, k) ==
  /\ fpc[t] = "done"
  /\ tv_type[t] = k
  /\ prevRet[t] # <<>>
  /\ prevRet[t][1] = k

\* C4: two sequential calls get_discovery('webos') with no register call in
\* between return the identical strategy instance, whether the registry
\* started empty or with the webos module already imported.
C4_SameInstanceTwice ==
  \A t \in callers :
    TwoCallsInARow(t, "webos") =>
      /\ fret[t] # 0
      /\ fret[t] = prevRet[t][2]

\* C4 witness: two calls in a row were made on a registry that started
\* empty, so that the first of them imported the module and constructed.
C4_Witness ==
  /\ TwoCallsInARow(1, "webos")
  /\ registers = 0
  /\ constructions["webos"] = 2

\* C5: for each built-in vendor key the strategy is constructed at most once
\* during the process lifetime, the first get_discovery call included.
C5_ConstructedAtMostOnce ==
  \A k \in Builtin : constructions[k] <= 1

\* C6: when all callers invoke get_discovery with the same built-in key
\* concurrently on an empty registry, exactly one instance is constructed and
\* every caller receives that same instance.
C6_ConcurrentSingleInstance ==
  \A k \in Builtin :
    (/\ Cardinality(callers) >= 2
     /\ \A t \in callers :
          /\ fpc[t] = "done"
          /\ tv_type[t] = k
          /\ emptyAtCall[t]) =>
      /\ constructions[k] = 1
      /\ \A t, u \in callers : fret[t] = fret[u]

\* C7: get_discovery with a key that is neither registered nor built-in
\* returns None, raises no error and leaves the registry unchanged: every
\* step of such a call leaves the registry as it is, and leads to the return
\* of None.
C7_UnknownKeyReturnsNone ==
  [][\A t \in callers :
       (/\ fpc[t] \in {"check", "import", "construct", "register", "return"}
        /\ tv_type[t] \notin Builtin
        /\ discoveries[tv_type[t]] = 0) =>
         /\ discoveries' = discoveries
         /\ fpc'[t] \in {"return", "done"}
         /\ fpc'[t] = "done" => fret'[t] = 0]_vars

\* C7 witness: a call with the unknown key returned None while another key
\* was registered.
C7_Witness ==
  /\ fpc[1] = "done"
  /\ tv_type[1] = "roku"
  /\ fret[1] = 0
  /\ discoveries["roku"] = 0
  /\ discoveries["webos"] # 0

\* ------------------------------------------------------------------------
\* Claims about test_connection
\* ------------------------------------------------------------------------
ProbeDone == ppc = "done"

\* no nc probe of any port exits with 0
NcFails == \A i \in 1..Len(ports) : ncExit[ports[i]] # "exit0"

\* the reverse-DNS step was reached
DnsReached == \E i \in 1..Len(probeLog) : probeLog[i][1] = "dns"

\* C8: when nc is unavailable and a TCP connect to port 3000 succeeds,
\* test_connection returns True and never attempts reverse-DNS resolution.
C8_SocketSuccessReturnsTrue ==
  (ProbeDone /\ NcUnavailable /\ 3000 \in sockOpen) =>
    /\ probeResult = "True"
    /\ ~DnsReached

\* C9: when the nc probe and the socket probe fail on every port and reverse
\* resolution of the IP succeeds, test_connection returns True.
C9_DnsSuccessReturnsTrue ==
  (ProbeDone /\ NcFails /\ sockOpen = {} /\ dnsOutcome = "resolves") =>
    probeResult = "True"

\* all three methods fail for the target
AllFail == NcFails /\ sockOpen = {} /\ dnsOutcome # "resolves"

\* C10: when all three methods fail, test_connection terminates and returns
\* False: every step before the return can be taken, each method probes a
\* port at most once, and at most 5 + 5 + 1 probes are made.
C10_AllFailReturnsFalse ==
  AllFail =>
    /\ ProbeDone => (probeResult = "False" /\ ~probePropagated)
    /\ ~ProbeDone => ENABLED NextProbe
    /\ Len(probeLog) <= Len(ports) + Len(webos_ports) + 1
    /\ \A i, j \in 1..Len(probeLog) :
         (probeLog[i][1] = probeLog[j][1] /\ probeLog[i][2] = probeLog[j][2])
           => i = j

\* C10 witness: all three methods failed, all five nc probes exited
\* non-zero, and the call ended after the reverse-DNS step.
C10_Witness ==
  /\ AllFail
  /\ ProbeDone
  /\ \A i \in 1..Len(ports) : ncExit[ports[i]] = "exit1"
  /\ Len(probeLog) = Len(ports) + Len(webos_ports) + 1
  /\ probeResult = "False"

\* the entries of probeLog made by one method
LogOf(method) == {i \in 1..Len(probeLog) : probeLog[i][1] = method}

\* C11: the nc step probes the ports in the order 3000, 3001, 8080, 8001,
\* 8002, and the first probe that exits with 0 ends the whole chain with
\* True: no later nc probe, no socket step, no reverse-DNS step.
C11_NcOrderAndShortCircuit ==
  \A i \in LogOf("nc") :
    /\ i <= 5
    /\ probeLog[i][2] = <<"3000", "3001", "8080", "8001", "8002">>[i]
    /\ \A j \in 1..(i - 1) : probeLog[j][1] = "nc"
    /\ probeLog[i][3] = "exit0" =>
         /\ i = Len(probeLog)
         /\ ppc = "done"
         /\ probeResult = "True"

\* C11 witness: ports 3000 and 3001 exited non-zero, port 8080 exited with
\* 0 although a later port would have, too, and the call returned True.
C11_Witness ==
  /\ ProbeDone
  /\ Len(probeLog) = 3
  /\ probeLog[3] = <<"nc", "8080", "exit0">>
  /\ ncExit["8001"] = "exit0"
  /\ sockOpen # {}
  /\ probeResult = "True"

\* C12: the socket step never starts before the nc step has tried all five
\* ports, also when the nc probe of some port raises.
C12_SocketAfterAllNcPorts ==
  LogOf("socket") # {} =>
    \A k \in 1..Len(ports) :
      \E i \in LogOf("nc") : probeLog[i][2] = ports[k]

\* C13: test_connection never propagates an exception of a probe: a failed
\* probe is caught and the chain goes on with the next method, and False is
\* returned only when no method reported success, after the socket step and
\* the reverse-DNS step were reached.
C13_ProbeFailuresAreCaught ==
  /\ ~probePropagated
  /\ \A i \in LogOf("nc") :
       probeLog[i][3] = "raise" =>
         /\ ppc # "done" \/ i < Len(probeLog)
         /\ i < Len(probeLog) => probeLog[i + 1][1] = "socket"
  /\ (ProbeDone /\ probeResult = "False") =>
       /\ \A i \in 1..Len(probeLog) :
            probeLog[i][3] \notin {"exit0", "connected", "resolves"}
       /\ LogOf("nc") # {}
       /\ Cardinality(LogOf("socket")) = Len(webos_ports)
       /\ LogOf("dns") # {}
  /\ ProbeDone => probeResult \in {"True", "False"}

\* C13 witness: nc is missing, the first spawn raised, the chain went on
\* through the socket step and the reverse-DNS step and returned False.
C13_Witness ==
  /\ ProbeDone
  /\ NcUnavailable
  /\ probeLog[1] = <<"nc", "3000", "raise">>
  /\ Len(probeLog) = 1 + Len(webos_ports) + 1
  /\ probeResult = "False"
  /\ ~probePropagated

\* ------------------------------------------------------------------------
\* Claims about connect_to_tv
\* ------------------------------------------------------------------------
\* C20: connect_to_tv returns only a client whose registration reached
\* REGISTERED, with the pairing store saved before it returns; a connect or
\* register failure is followed by a retry and never by a return, so the
\* call does not return while the TV does not register.
C20_ReturnsOnlyRegisteredClient ==
  /\ cret = "client" =>
       /\ registered
       /\ saved
       /\ storeFile = "paired"
       /\ "client_key" \in store
  /\ cpc \in {"returned", "launched"} <=> cret = "client"
  /\ cexc \in {"OSError", "Exception"} =>
       cpc \in {"sleep", "connect", "register", "returned", "launched"}
  /\ cpc = "raised" => attempts = 0
  /\ ~registered => cret = "none"

\* C20 witness: the first attempt failed, the second one was prompted,
\* reached REGISTERED, saved the store and returned the client.
C20_Witness ==
  /\ cpc = "returned"
  /\ attempts = 2
  /\ cexc # "none"
  /\ prompts = 1
  /\ cret = "client"

====
